---- MODULE Spec2Model ----
(***************************************************************************)
(* The /quote handler of backend/app/main.py: validation, fee evaluation   *)
(* per provider, weight resolution, fee/landing baselines, composite       *)
(* scoring, ranking and truncation.  Each invocation of quote() is a       *)
(* process with its own locals; FastAPI runs a sync handler on a worker    *)
(* thread, so several invocations may interleave.                          *)
(*                                                                         *)
(* Numbers.  Weights are counted in hundredths (0.5 is 50), so Unit is the *)
(* float 1.0.  A resolved weight is the exact quotient <<n, d>> = n/d.     *)
(* Scores are counted in millionths (the precision round(x, 6) keeps).     *)
(* Money is in whole units of the source currency, rates are integers.     *)
(* Quotients are exact: the rounding error of binary floating point (about *)
(* 1e-16 on a weight) is not modelled.                                     *)
(***************************************************************************)
EXTENDS Integers, Sequences, FiniteSets, TLC

VARIABLES
  pc,               \* position of each invocation in quote()
  req,              \* the QuoteRequest of each invocation
  db,               \* rows db.query(Provider).all() returns to the invocation
  fx,               \* "rates" mapping get_live_rates() returns to the invocation
  providers,        \* local: providers
  rate,             \* local: rate
  numeric_results,  \* local: numeric_results
  weights,          \* local: weights
  best_landing,     \* local: best_landing
  best_fees,        \* local: best_fees
  augmented,        \* local: augmented
  results_sorted,   \* local: results_sorted
  response          \* what the invocation returned or raised

vars == <<pc, req, db, fx, providers, rate, numeric_results, weights,
          best_landing, best_fees, augmented, results_sorted, response>>

locals == <<providers, rate, numeric_results, weights, best_landing, best_fees,
            augmented, results_sorted>>

inputs == <<req, db, fx>>

----------------------------------------------------------------------------
(* Bounds of the model *)

MaxInvocations == 2     \* concurrent invocations of quote()
MaxProviders == 2       \* rows in the provider table
MaxTopN == 3            \* largest top_n a request carries
MaxOverride == 2        \* entries in a request's partial weights mapping

(* Program constants *)

Unit == 100             \* 1.0 in hundredths: the "or 1.0" fallback total
FeeDefault == 1         \* default=1.0 of the positive-fee minimum
DefaultTopN == 3        \* QuoteRequest.top_n default

Invocations == 1 .. MaxInvocations

----------------------------------------------------------------------------
(* Arithmetic helpers *)

Min(a, b) == IF a <= b THEN a ELSE b
Max(a, b) == IF a >= b THEN a ELSE b

SetMin(S) == CHOOSE x \in S : \A y \in S : x <= y
SetMax(S) == CHOOSE x \in S : \A y \in S : x >= y

\* a / b rounded to the nearest integer (b # 0)
RoundDiv(a, b) ==
  LET n == IF b < 0 THEN -a ELSE a
      d == IF b < 0 THEN -b ELSE b
  IN  (2 * n + d) \div (2 * d)

\* exact quotients <<n, d>>, d # 0
RatEq(x, y) == x[1] * y[2] = y[1] * x[2]
RatNonNeg(x) == x[1] * x[2] >= 0

----------------------------------------------------------------------------
(* Request and provider data *)

\* Optional[T]: <<>> is None, <<v>> is a value
None == <<>>
Some(v) == <<v>>
IsNone(o) == Len(o) = 0
Get(o) == o[1]

\* a weights value as JSON carries it: a number (in hundredths) or not one
Num(n) == [kind |-> "num", val |-> n]
NotANumber == [kind |-> "str", val |-> 0]

\* str.upper() on the currency codes of the model
Upper(s) ==
  CASE s = "eur" -> "EUR"
    [] s = "gbp" -> "GBP"
    [] s = "xxx" -> "XXX"
    [] s = "usd" -> "USD"
    [] OTHER -> s

default_weights ==
  [fees_fx |-> 50, trust |-> 15, service |-> 15,
   customer_satisfaction |-> 10, reliability |-> 6, speed |-> 4]

Keys == DOMAIN default_weights

----------------------------------------------------------------------------
(* services.compute_for_provider, services._normalize and                  *)
(* services.compute_financial_score are imported by main.py; their bodies  *)
(* follow the design document (sections 4.1, 4.2, 4.3).                    *)

\* fee_rules = [fixed_fee, percent]; fees are raised on the raw amount and
\* landing = max(0, amount - fees) * effective_rate
compute_for_provider(amount, spot, fee_rules) ==
  LET breakdown == << [name |-> "fixed", amount |-> fee_rules.fixed_fee],
                      [name |-> "percent",
                       amount |-> (fee_rules.percent * amount) \div 100] >>
      fees == breakdown[1].amount + breakdown[2].amount
  IN  [landing |-> Max(0, amount - fees) * spot,
       effective_rate |-> spot,
       fees |-> fees,
       fee_breakdown |-> breakdown]

\* raw score on the 0..100 scale to [0, 1], clamped; in millionths
normalize(raw) == Min(100, Max(0, raw)) * 10000

\* 0.5 * landing/best_landing + 0.5 * best_fees/max(fees, eps), clamped to
\* [0, 1]; a zero best_landing gives the neutral landing ratio 0.5
compute_financial_score(landing, fees, bl, bf) ==
  LET landing_part == IF bl = 0 THEN 250000 ELSE (500000 * landing) \div bl
      fee_part == IF fees <= 0 THEN 1000000 ELSE (500000 * bf) \div fees
  IN  Min(1000000, Max(0, landing_part + fee_part))

----------------------------------------------------------------------------
(* quote(): lines 65-78, the fee evaluation loop *)

\* variant: one module-level list that every invocation appends to
FreshResultsShared(i) ==
  LET others == Invocations \ {i}
  IN  IF others = {} THEN <<>> ELSE numeric_results[SetMin(others)]

\* line 65: the list the loop appends to
FreshResults(i) == <<>>

NumericRow(p, amount, spot) ==
  LET res == compute_for_provider(amount, spot, p.fee_rules)
  IN  [provider_id |-> p.id,
       code |-> p.code,
       landing |-> res.landing,
       effective_rate |-> res.effective_rate,
       fees |-> res.fees,
       fee_breakdown |-> res.fee_breakdown]

NumericResults(start, ps, amount, spot) ==
  start \o [j \in 1 .. Len(ps) |-> NumericRow(ps[j], amount, spot)]

----------------------------------------------------------------------------
(* quote(): lines 80-97, weight resolution *)

\* line 89: `if req_weights:` -- None and the empty dict are falsy
Truthy(o) == ~IsNone(o) /\ DOMAIN Get(o) # {}

\* variant: without the `if k in merged` guard
OverrideKeysAll(rw, merged) == DOMAIN rw

\* lines 91-92: the request keys that override an entry of merged
OverrideKeys(rw, merged) == {k \in DOMAIN rw : k \in DOMAIN merged}

\* line 93: float(v) raises on a value that is not a number
FloatRaises(rw) ==
  \E k \in OverrideKeys(rw, default_weights) : rw[k].kind # "num"

\* lines 90-93
Merged(rw) ==
  LET over == OverrideKeys(rw, default_weights)
  IN  [k \in DOMAIN default_weights \cup over |->
         IF k \in over THEN rw[k].val ELSE default_weights[k]]

RECURSIVE SumOver(_, _)
SumOver(f, S) ==
  IF S = {} THEN 0
  ELSE LET k == CHOOSE x \in S : TRUE IN f[k] + SumOver(f, S \ {k})

\* variant: no renormalization
TotalNoRenorm(merged) == Unit

\* line 94: total = sum(merged.values()) or 1.0
Total(merged) ==
  LET s == SumOver(merged, DOMAIN merged) IN IF s = 0 THEN Unit ELSE s

\* line 95
Renormalized(merged) ==
  [k \in DOMAIN merged |-> <<merged[k], Total(merged)>>]

\* line 97: weights = default_weights
DefaultWeights == [k \in Keys |-> <<default_weights[k], Unit>>]

\* lines 88-97, when float() does not raise
ResolveWeights(o) ==
  IF Truthy(o) THEN Renormalized(Merged(Get(o))) ELSE DefaultWeights

----------------------------------------------------------------------------
(* quote(): lines 99-102, the baselines *)

BestLanding(nr) ==
  IF nr # <<>> THEN SetMax({nr[j].landing : j \in 1 .. Len(nr)}) ELSE 0

\* variant: line 100 alone, without the fallback of lines 101-102
BestFeesNoFallback(nr) ==
  IF nr # <<>> THEN SetMin({nr[j].fees : j \in 1 .. Len(nr)}) ELSE 0

\* lines 100-102
BestFees(nr) ==
  LET lowest == IF nr # <<>> THEN SetMin({nr[j].fees : j \in 1 .. Len(nr)})
                ELSE 0
      positive == {nr[j].fees : j \in {x \in 1 .. Len(nr) : nr[x].fees > 0}}
  IN  IF lowest = 0
      THEN (IF positive = {} THEN FeeDefault ELSE SetMin(positive))
      ELSE lowest

----------------------------------------------------------------------------
(* quote(): lines 104-139, scoring *)

\* line 106: next((x for x in numeric_results if x["code"] == p.code), None)
FirstMatch(nr, code) ==
  LET hits == {j \in 1 .. Len(nr) : nr[j].code = code}
  IN  IF hits = {} THEN None ELSE Some(nr[SetMin(hits)])

\* lines 119-126 and 138: the weighted sum, rounded to 6 places.  Every
\* weight is a quotient by the same total, taken from fees_fx.
Composite(w, fin, p) ==
  RoundDiv(  w["fees_fx"][1] * fin
           + w["trust"][1] * normalize(p.trust_score)
           + w["service"][1] * normalize(p.service_quality)
           + w["customer_satisfaction"][1] * normalize(p.customer_satisfaction)
           + w["reliability"][1] * normalize(p.reliability)
           + w["speed"][1] * normalize(p.speed_score),
           w["fees_fx"][2])

\* lines 109-139: the entry appended for the provider at position j; pos is
\* a history field (the provider's position), not part of the payload
Scored(match, p, j, w, bl, bf) ==
  LET fin == compute_financial_score(match.landing, match.fees, bl, bf)
  IN  [provider_id |-> match.provider_id,
       code |-> match.code,
       landing |-> match.landing,
       effective_rate |-> match.effective_rate,
       fees |-> match.fees,
       fee_breakdown |-> match.fee_breakdown,
       component_scores |->
         [financial |-> fin,
          trust |-> normalize(p.trust_score),
          service |-> normalize(p.service_quality),
          customer_satisfaction |-> normalize(p.customer_satisfaction),
          reliability |-> normalize(p.reliability),
          speed |-> normalize(p.speed_score)],
       composite_score |-> Composite(w, fin, p),
       pos |-> j]

\* lines 104-139: the loop from provider j on; a provider without a match
\* is skipped (lines 107-108)
RECURSIVE AugmentFrom(_, _, _, _, _, _)
AugmentFrom(j, ps, nr, w, bl, bf) ==
  IF j > Len(ps) THEN <<>>
  ELSE LET match == FirstMatch(nr, ps[j].code)
           rest == AugmentFrom(j + 1, ps, nr, w, bl, bf)
       IN  IF IsNone(match) THEN rest
           ELSE <<Scored(Get(match), ps[j], j, w, bl, bf)>> \o rest

Augmented(ps, nr, w, bl, bf) == AugmentFrom(1, ps, nr, w, bl, bf)

----------------------------------------------------------------------------
(* quote(): lines 141-143, ranking *)

\* variant: ascending key
SortKeyAscending(x) == x.composite_score

\* line 141: key=lambda x: -x["composite_score"]
SortKey(x) == -x.composite_score

\* sorted() is stable: an element goes after every element whose key is not
\* greater than its own
RECURSIVE Insert(_, _)
Insert(s, x) ==
  IF s = <<>> THEN <<x>>
  ELSE IF SortKey(x) < SortKey(Head(s)) THEN <<x>> \o s
       ELSE <<Head(s)>> \o Insert(Tail(s), x)

RECURSIVE Sorted(_)
Sorted(s) ==
  IF s = <<>> THEN <<>>
  ELSE Insert(Sorted(SubSeq(s, 1, Len(s) - 1)), s[Len(s)])

\* line 142: results_sorted[: req.top_n]
Slice(s, top_n) ==
  IF IsNone(top_n) THEN s
  ELSE IF Get(top_n) >= 0 THEN SubSeq(s, 1, Min(Get(top_n), Len(s)))
       ELSE SubSeq(s, 1, Max(0, Len(s) + Get(top_n)))

----------------------------------------------------------------------------
(* Responses *)

NoWeights == [k \in {} |-> <<0, 1>>]

NoResponse ==
  [status |-> 0, detail |-> <<>>, from |-> "", to |-> "", amount |-> 0,
   rate |-> 0, results |-> <<>>, weights |-> NoWeights]

\* raise HTTPException(status_code=..., detail=...)
HTTPException(status, detail) ==
  [NoResponse EXCEPT !.status = status, !.detail = detail]

\* line 52
AmountError == HTTPException(400, <<"amount must be > 0">>)

\* line 57
NoProvidersError == HTTPException(500, <<"no providers available">>)

\* line 62
CurrencyError(from_cur, to_cur) ==
  HTTPException(400, <<"currency pair", from_cur, "->", to_cur,
                       "not available">>)

\* an exception the handler does not catch
ServerError == HTTPException(500, <<"Internal Server Error">>)

\* line 143
Ok(from_cur, to_cur, amount, spot, top, w) ==
  [status |-> 200, detail |-> <<>>, from |-> from_cur, to |-> to_cur,
   amount |-> amount, rate |-> spot, results |-> top, weights |-> w]

----------------------------------------------------------------------------
(* The inputs an invocation can meet *)

Request(amount, to_cur, top_n, w) ==
  [from_currency |-> "usd", to_currency |-> to_cur, amount |-> amount,
   top_n |-> top_n, weights |-> w]

Codes == {"A", "B"}

FeeRules ==
  { [fixed_fee |-> 0, percent |-> 0],
    [fixed_fee |-> 5, percent |-> 0],
    [fixed_fee |-> 0, percent |-> 10] }

Metrics == {60, 80}

\* a Provider row; the five quality metrics of a row are equal
Provider(id, code, fee_rules, m) ==
  [id |-> id, code |-> code, fee_rules |-> fee_rules,
   trust_score |-> m, service_quality |-> m, customer_satisfaction |-> m,
   reliability |-> m, speed_score |-> m]

\* the tables of n rows: the row at position j has primary key j
Tables(n) ==
  { [j \in 1 .. n |-> Provider(j, t[j][1], t[j][2], t[j][3])] :
      t \in [1 .. n -> Codes \X FeeRules \X Metrics] }

ProviderLists == UNION { Tables(n) : n \in 0 .. MaxProviders }

RateTable == [EUR |-> 2, GBP |-> 3]

AllKeys == Keys \cup {"bogus"}

WeightValues == {Num(0 - 25), Num(0), Num(25), NotANumber}

\* the weights mappings: at most MaxOverride entries over recognized and
\* unrecognized keys, or all six recognized keys set to one number
PartialMaps ==
  UNION { [K -> WeightValues] :
            K \in {S \in SUBSET AllKeys : Cardinality(S) <= MaxOverride} }

UniformMaps ==
  { [k \in Keys |-> v] : v \in {x \in WeightValues : x.kind = "num"} }

WeightInputs == {None} \cup {Some(m) : m \in PartialMaps \cup UniformMaps}

TopNs == {None} \cup {Some(n) : n \in (0 - 1) .. MaxTopN}

Input(r, d, f) == [req |-> r, db |-> d, fx |-> f]

\* ranking: every provider table and top_n, three weights mappings
RankInputs ==
  { Input(Request(a, c, n, w), d, RateTable) :
      a \in {0, 100}, c \in {"eur", "xxx"}, n \in TopNs,
      w \in {None, Some([fees_fx |-> Num(0)]), Some([trust |-> NotANumber])},
      d \in ProviderLists }

TwoProviders ==
  << Provider(1, "A", [fixed_fee |-> 5, percent |-> 0], 80),
     Provider(2, "B", [fixed_fee |-> 0, percent |-> 10], 60) >>

\* weight resolution: every weights mapping, two provider tables
WeightSpecInputs ==
  { Input(Request(a, c, Some(DefaultTopN), w), d, RateTable) :
      a \in {0, 100}, c \in {"eur", "xxx"}, w \in WeightInputs,
      d \in {<<>>, TwoProviders} }

\* concurrent invocations: requests that differ in every field
ConcInputs ==
  { Input(Request(100, "eur", Some(DefaultTopN), None), TwoProviders, RateTable),
    Input(Request(200, "gbp", Some(1), Some([fees_fx |-> Num(0)])),
          << Provider(1, "A", [fixed_fee |-> 0, percent |-> 0], 60),
             Provider(2, "B", [fixed_fee |-> 0, percent |-> 10], 80) >>,
          RateTable),
    Input(Request(100, "eur", None, Some([trust |-> NotANumber])),
          TwoProviders, RateTable),
    Input(Request(0, "eur", Some(1), None), TwoProviders, RateTable),
    Input(Request(100, "xxx", Some(1), None), TwoProviders, RateTable),
    Input(Request(100, "eur", Some(1), None), <<>>, RateTable) }

----------------------------------------------------------------------------
(* Initial states: the invocations in `live` have received their request  *)

InitWith(live, Inputs) ==
  /\ \E f \in [live -> Inputs] :
       /\ req = [i \in Invocations |->
                   IF i \in live THEN f[i].req
                   ELSE Request(0, "eur", None, None)]
       /\ db = [i \in Invocations |-> IF i \in live THEN f[i].db ELSE <<>>]
       /\ fx = [i \in Invocations |-> RateTable]
  /\ pc = [i \in Invocations |-> IF i \in live THEN "validate" ELSE "off"]
  /\ providers = [i \in Invocations |-> <<>>]
  /\ rate = [i \in Invocations |-> 0]
  /\ numeric_results = [i \in Invocations |-> <<>>]
  /\ weights = [i \in Invocations |-> NoWeights]
  /\ best_landing = [i \in Invocations |-> 0]
  /\ best_fees = [i \in Invocations |-> 0]
  /\ augmented = [i \in Invocations |-> <<>>]
  /\ results_sorted = [i \in Invocations |-> <<>>]
  /\ response = [i \in Invocations |-> NoResponse]

Init == InitWith({1}, RankInputs)

WeightInit == InitWith({1}, WeightSpecInputs)

ConcInit == InitWith(Invocations, ConcInputs)

----------------------------------------------------------------------------
(* quote(), by position *)

Return(i, r) ==
  /\ response' = [response EXCEPT ![i] = r]
  /\ pc' = [pc EXCEPT ![i] = "done"]

Goto(i, label) ==
  /\ pc' = [pc EXCEPT ![i] = label]
  /\ UNCHANGED response

\* lines 51-52
RejectAmount(i) ==
  /\ pc[i] = "validate"
  /\ req[i].amount <= 0
  /\ Return(i, AmountError)
  /\ UNCHANGED <<inputs, locals>>

\* lines 48-51
AcceptAmount(i) ==
  /\ pc[i] = "validate"
  /\ ~(req[i].amount <= 0)
  /\ Goto(i, "load")
  /\ UNCHANGED <<inputs, locals>>

\* lines 54-57
RejectNoProviders(i) ==
  /\ pc[i] = "load"
  /\ db[i] = <<>>
  /\ providers' = [providers EXCEPT ![i] = db[i]]
  /\ Return(i, NoProvidersError)
  /\ UNCHANGED <<inputs, rate, numeric_results, weights, best_landing,
                 best_fees, augmented, results_sorted>>

\* lines 54-56
LoadProviders(i) ==
  /\ pc[i] = "load"
  /\ db[i] # <<>>
  /\ providers' = [providers EXCEPT ![i] = db[i]]
  /\ Goto(i, "rates")
  /\ UNCHANGED <<inputs, rate, numeric_results, weights, best_landing,
                 best_fees, augmented, results_sorted>>

\* lines 59-62
RejectCurrency(i) ==
  /\ pc[i] = "rates"
  /\ Upper(req[i].to_currency) \notin DOMAIN fx[i]
  /\ Return(i, CurrencyError(Upper(req[i].from_currency),
                             Upper(req[i].to_currency)))
  /\ UNCHANGED <<inputs, locals>>

\* lines 59-63
FetchRate(i) ==
  /\ pc[i] = "rates"
  /\ Upper(req[i].to_currency) \in DOMAIN fx[i]
  /\ rate' = [rate EXCEPT ![i] = fx[i][Upper(req[i].to_currency)]]
  /\ Goto(i, "evaluate")
  /\ UNCHANGED <<inputs, providers, numeric_results, weights, best_landing,
                 best_fees, augmented, results_sorted>>

\* lines 65-78
EvaluateFees(i) ==
  /\ pc[i] = "evaluate"
  /\ numeric_results' =
       [numeric_results EXCEPT
          ![i] = NumericResults(FreshResults(i), providers[i],
                                req[i].amount, rate[i])]
  /\ Goto(i, "weights")
  /\ UNCHANGED <<inputs, providers, rate, weights, best_landing, best_fees,
                 augmented, results_sorted>>

\* lines 88-93: float(v) raises, nothing catches it
WeightValueError(i) ==
  /\ pc[i] = "weights"
  /\ Truthy(req[i].weights)
  /\ FloatRaises(Get(req[i].weights))
  /\ Return(i, ServerError)
  /\ UNCHANGED <<inputs, locals>>

\* lines 80-97
ResolveRequestWeights(i) ==
  /\ pc[i] = "weights"
  /\ ~(Truthy(req[i].weights) /\ FloatRaises(Get(req[i].weights)))
  /\ weights' = [weights EXCEPT ![i] = ResolveWeights(req[i].weights)]
  /\ Goto(i, "baseline")
  /\ UNCHANGED <<inputs, providers, rate, numeric_results, best_landing,
                 best_fees, augmented, results_sorted>>

\* lines 99-102
Baselines(i) ==
  /\ pc[i] = "baseline"
  /\ best_landing' =
       [best_landing EXCEPT ![i] = BestLanding(numeric_results[i])]
  /\ best_fees' = [best_fees EXCEPT ![i] = BestFees(numeric_results[i])]
  /\ Goto(i, "score")
  /\ UNCHANGED <<inputs, providers, rate, numeric_results, weights,
                 augmented, results_sorted>>

\* lines 104-139
ScoreProviders(i) ==
  /\ pc[i] = "score"
  /\ augmented' =
       [augmented EXCEPT
          ![i] = Augmented(providers[i], numeric_results[i], weights[i],
                           best_landing[i], best_fees[i])]
  /\ Goto(i, "rank")
  /\ UNCHANGED <<inputs, providers, rate, numeric_results, weights,
                 best_landing, best_fees, results_sorted>>

\* lines 141-143
RankAndRespond(i) ==
  /\ pc[i] = "rank"
  /\ results_sorted' = [results_sorted EXCEPT ![i] = Sorted(augmented[i])]
  /\ Return(i, Ok(Upper(req[i].from_currency), Upper(req[i].to_currency),
                  req[i].amount, rate[i],
                  Slice(Sorted(augmented[i]), req[i].top_n), weights[i]))
  /\ UNCHANGED <<inputs, providers, rate, numeric_results, weights,
                 best_landing, best_fees, augmented>>

Next ==
  \E i \in Invocations :
    \/ RejectAmount(i)
    \/ AcceptAmount(i)
    \/ RejectNoProviders(i)
    \/ LoadProviders(i)
    \/ RejectCurrency(i)
    \/ FetchRate(i)
    \/ EvaluateFees(i)
    \/ WeightValueError(i)
    \/ ResolveRequestWeights(i)
    \/ Baselines(i)
    \/ ScoreProviders(i)
    \/ RankAndRespond(i)

\* one invocation, every provider table and top_n
Spec == Init /\ [][Next]_vars

\* one invocation, every weights mapping
WeightSpec == WeightInit /\ [][Next]_vars

\* MaxInvocations invocations, interleaved
ConcSpec == ConcInit /\ [][Next]_vars

----------------------------------------------------------------------------
(* quote() as one function of its inputs: what an invocation returns when  *)
(* nothing else runs                                                       *)

QuoteAlone(r, d, f) ==
  LET from_cur == Upper(r.from_currency)
      to_cur == Upper(r.to_currency)
  IN  IF r.amount <= 0 THEN AmountError
      ELSE IF d = <<>> THEN NoProvidersError
      ELSE IF to_cur \notin DOMAIN f THEN CurrencyError(from_cur, to_cur)
      ELSE IF Truthy(r.weights) /\ FloatRaises(Get(r.weights)) THEN ServerError
      ELSE LET spot == f[to_cur]
               nr == NumericResults(<<>>, d, r.amount, spot)
               w == ResolveWeights(r.weights)
               aug == Augmented(d, nr, w, BestLanding(nr), BestFees(nr))
           IN  Ok(from_cur, to_cur, r.amount, spot,
                  Slice(Sorted(aug), r.top_n), w)

----------------------------------------------------------------------------
(* Properties *)

Done(i) == pc[i] = "done"
Returned(i) == Done(i) /\ response[i].status = 200

\* the three invalid inputs of the design's error taxonomy
InvalidInput(i) ==
  \/ req[i].amount <= 0
  \/ db[i] = <<>>
  \/ Upper(req[i].to_currency) \notin DOMAIN fx[i]

\* the merged table the design describes: defaults, with the recognized keys
\* of the request overriding
ExpectedMerged(rw) ==
  [k \in Keys |-> IF k \in DOMAIN rw THEN rw[k].val ELSE default_weights[k]]

\* the request's weights without its unrecognized keys
Recognized(o) ==
  IF IsNone(o) THEN None
  ELSE Some([k \in DOMAIN Get(o) \cap Keys |-> Get(o)[k]])

NonIncreasingStable(r) ==
  \A a, b \in 1 .. Len(r) :
    a < b => /\ r[a].composite_score >= r[b].composite_score
             /\ (r[a].composite_score = r[b].composite_score
                   => r[a].pos < r[b].pos)

FeesOf(i) == {numeric_results[i][j].fees : j \in 1 .. Len(numeric_results[i])}

\* C1: the weights quote() returns sum to 1 for every weights input,
\* the zero-sum mapping included.
C1_WeightsSumToOne ==
  \A i \in Invocations :
    Returned(i) =>
      LET w == response[i].weights
      IN  SumOver([k \in DOMAIN w |-> w[k][1]], DOMAIN w) = w["fees_fx"][2]

\* C2: every one of the six weights quote() returns is >= 0, whatever
\* numeric values the request's mapping carries.
C2_WeightsNonNegative ==
  \A i \in Invocations :
    Returned(i) => \A k \in Keys : RatNonNeg(response[i].weights[k])

\* C3: the results list has length min(top_n, number of providers) and is
\* the first entries of the full descending ordering, whatever integer top_n
\* the request carries.
C3_LengthIsMinTopN ==
  \A i \in Invocations :
    (Returned(i) /\ ~IsNone(req[i].top_n)) =>
      LET r == response[i].results
      IN  /\ Len(r) = Min(Get(req[i].top_n), Len(db[i]))
          /\ r = SubSeq(results_sorted[i], 1, Len(r))

\* C4: the results are ordered by composite_score non-increasing, and
\* candidates with equal composite_score keep the order of their providers
\* in the provider list.
C4_SortedDescendingStable ==
  \A i \in Invocations :
    Returned(i) => /\ NonIncreasingStable(results_sorted[i])
                   /\ NonIncreasingStable(response[i].results)

C4_Witness ==
  \E i \in Invocations :
    /\ Returned(i)
    /\ Len(response[i].results) >= 2
    /\ response[i].results[1].composite_score
         = response[i].results[2].composite_score
    /\ response[i].results[1].fees # response[i].results[2].fees

\* C5: with non-negative fees, best_fees is the minimum fee when that is
\* positive, the lowest positive fee when the minimum is 0, and 1.0 when no
\* fee is positive; it is always > 0 when the candidates are scored.
C5_BestFeesFallback ==
  \A i \in Invocations :
    (pc[i] \in {"score", "rank"} \/ Returned(i)) =>
      LET F == FeesOf(i)
          P == {x \in F : x > 0}
      IN  /\ \A x \in F : x >= 0
          /\ F # {}
          /\ SetMin(F) > 0 => best_fees[i] = SetMin(F)
          /\ (SetMin(F) = 0 /\ P # {}) => best_fees[i] = SetMin(P)
          /\ P = {} => best_fees[i] = 1
          /\ best_fees[i] > 0

C5_Witness ==
  \E i \in Invocations :
    /\ pc[i] = "score"
    /\ 0 \in FeesOf(i)
    /\ Cardinality(FeesOf(i)) = 2
    /\ best_fees[i] = 10

\* C6: each invalid input (amount <= 0, no providers, target currency
\* missing from the rates) is rejected before any fee evaluation, weight
\* resolution or scoring, with a 4xx status.
C6_InvalidInputIsClientError ==
  \A i \in Invocations :
    (Done(i) /\ InvalidInput(i)) =>
      /\ response[i].status \in 400 .. 499
      /\ numeric_results[i] = <<>>
      /\ DOMAIN weights[i] = {}
      /\ augmented[i] = <<>>

\* C7: a non-empty mapping whose merged sum S is not 0 resolves to
\* merged[k] / S; {fees_fx: 0} gives fees_fx = 0 and the other defaults
\* divided by 0.5; no weights gives the defaults unchanged.
C7_Renormalized ==
  \A i \in Invocations :
    Returned(i) =>
      LET o == req[i].weights
          w == response[i].weights
      IN  /\ Truthy(o) =>
               LET m == ExpectedMerged(Get(o))
                   S == SumOver(m, Keys)
               IN  S # 0 => \A k \in Keys : RatEq(w[k], <<m[k], S>>)
          /\ o = Some([fees_fx |-> Num(0)]) =>
               /\ w["fees_fx"][1] = 0
               /\ \A k \in Keys \ {"fees_fx"} :
                    RatEq(w[k], <<default_weights[k], 50>>)
          /\ IsNone(o) => \A k \in Keys : w[k] = <<default_weights[k], 100>>

C7_Witness ==
  \E i \in Invocations :
    /\ Returned(i)
    /\ req[i].weights = Some([fees_fx |-> Num(0)])
    /\ response[i].weights["trust"] = <<15, 50>>

\* C8: unrecognized keys of the weights mapping never raise and never
\* appear: the returned weights have exactly the six recognized keys, and
\* equal the weights resolved from the mapping without those keys.
C8_UnknownKeysIgnored ==
  \A i \in Invocations :
    LET o == req[i].weights
    IN  /\ Returned(i) =>
             /\ DOMAIN response[i].weights = Keys
             /\ \A k \in Keys :
                  RatEq(response[i].weights[k], ResolveWeights(Recognized(o))[k])
        /\ (Done(i) /\ response[i] = ServerError) =>
             \E k \in DOMAIN Get(o) \cap Keys : Get(o)[k].kind # "num"

C8_Witness ==
  \E i \in Invocations :
    /\ Returned(i)
    /\ req[i].weights = Some([bogus |-> NotANumber, trust |-> Num(25)])
    /\ response[i].weights["trust"] = <<25, 110>>

\* C9: an invocation's response depends only on its own request, provider
\* list and rates: under every interleaving it is the response of the
\* invocation run alone, and equal inputs give equal responses.
C9_Independent ==
  /\ \A i \in Invocations :
       Done(i) => response[i] = QuoteAlone(req[i], db[i], fx[i])
  /\ \A i, j \in Invocations :
       (Done(i) /\ Done(j) /\ req[i] = req[j] /\ db[i] = db[j] /\ fx[i] = fx[j])
         => response[i] = response[j]

C9_Witness ==
  \E i, j \in Invocations :
    /\ i # j
    /\ Returned(i) /\ Returned(j)
    /\ req[i].weights # req[j].weights
    /\ best_fees[i] # best_fees[j]
    /\ response[i].weights # response[j].weights

\* C10: every provider contributes exactly one scored candidate, which
\* carries the landing, fees, fee breakdown and identity of that provider,
\* also when two providers share a code.
C10_OwnFeeResult ==
  \A i \in Invocations :
    (pc[i] = "rank" \/ Returned(i)) =>
      LET a == augmented[i]
      IN  /\ Len(a) = Len(providers[i])
          /\ \A j \in 1 .. Len(a) :
               /\ a[j].pos = j
               /\ a[j].provider_id = providers[i][j].id
               /\ a[j].code = providers[i][j].code
               /\ a[j].landing = numeric_results[i][j].landing
               /\ a[j].fees = numeric_results[i][j].fees
               /\ a[j].fee_breakdown = numeric_results[i][j].fee_breakdown

====
